---- MODULE Spec2Model ----
(***************************************************************************)
(* Model of library/dellemc/ome/ome_template_network_vlan.py: one          *)
(* invocation of the module is validate_vlans, get_vlan_payload (template  *)
(* lookup, topology read, no-change comparison, payload construction) and  *)
(* the POST of the payload.  The management service is the environment:    *)
(* its VLAN catalog, its template list and the attribute view of the one   *)
(* template it holds.                                                      *)
(*                                                                         *)
(* Conventions.  A Python value that may be None is a sequence of length   *)
(* at most one: None is <<>>, the value v is <<v>>.  A Python dict is the  *)
(* sequence of its <<key, value>> items in insertion order.  A Python str  *)
(* that the code parses (attribute['Value']) is the sequence of its        *)
(* characters.                                                             *)
(***************************************************************************)
EXTENDS Integers, Sequences, FiniteSets, TLC

None == <<>>
Some(v) == <<v>>

\* ------------------------------------------------------------------------
\* Bounds of the model
\* ------------------------------------------------------------------------
\* declared port numbers range over 1..MaxPort; the template has ports 1, 2
MaxPort == 3
\* number of invocations of the module with the same declaration
MaxRuns == 2

\* ------------------------------------------------------------------------
\* Program constants
\* ------------------------------------------------------------------------
NETWORK_HIERARCHY_VIEW == 4

\* ------------------------------------------------------------------------
\* Python dict as the sequence of its items in insertion order
\* ------------------------------------------------------------------------
Keys(d) == {d[i][1] : i \in DOMAIN d}
Values(d) == {d[i][2] : i \in DOMAIN d}
Has(d, k) == k \in Keys(d)
\* d[k] for a key that is present
At(d, k) == d[CHOOSE i \in DOMAIN d : d[i][1] = k][2]
\* d.get(k): None when the key is absent
Get(d, k) == IF Has(d, k) THEN Some(At(d, k)) ELSE None
\* d[k] = v: an existing key keeps its position
Put(d, k, v) ==
    IF Has(d, k)
    THEN [i \in DOMAIN d |-> IF d[i][1] = k THEN <<k, v>> ELSE d[i]]
    ELSE Append(d, <<k, v>>)
\* the dict left by d.pop(k, default)
Pop(d, k) == SelectSeq(d, LAMBDA it : it[1] # k)
\* list(d.keys())
KeyList(d) == [i \in DOMAIN d |-> d[i][1]]

\* ------------------------------------------------------------------------
\* Python str operations on character sequences
\* ------------------------------------------------------------------------
Digits == {"0", "1", "2", "3", "4", "5", "6", "7", "8", "9"}
DigitVal ==
    ("0" :> 0) @@ ("1" :> 1) @@ ("2" :> 2) @@ ("3" :> 3) @@ ("4" :> 4) @@
    ("5" :> 5) @@ ("6" :> 6) @@ ("7" :> 7) @@ ("8" :> 8) @@ ("9" :> 9)
DigitChar == <<"0", "1", "2", "3", "4", "5", "6", "7", "8", "9">>

\* s.replace(" ", "")
RemoveSpaces(s) == SelectSeq(s, LAMBDA c : c # " ")

\* s.strip() for the one whitespace character of the model
RECURSIVE LStrip(_)
LStrip(s) == IF s # <<>> /\ Head(s) = " " THEN LStrip(Tail(s)) ELSE s
RECURSIVE RStrip(_)
RStrip(s) ==
    IF s # <<>> /\ s[Len(s)] = " " THEN RStrip(SubSeq(s, 1, Len(s) - 1)) ELSE s
Strip(s) == RStrip(LStrip(s))

\* s.split(","): the fields between the commas, "" gives [""]
RECURSIVE SplitFrom(_, _, _)
SplitFrom(s, i, cur) ==
    IF i > Len(s) THEN <<cur>>
    ELSE IF s[i] = "," THEN <<cur>> \o SplitFrom(s, i + 1, <<>>)
    ELSE SplitFrom(s, i + 1, Append(cur, s[i]))
SplitComma(s) == SplitFrom(s, 1, <<>>)

\* int(s): None stands for the ValueError int() raises
RECURSIVE DecimalValue(_, _)
DecimalValue(s, acc) ==
    IF s = <<>> THEN acc ELSE DecimalValue(Tail(s), 10 * acc + DigitVal[Head(s)])
PyInt(s) ==
    LET t == Strip(s)
    IN IF t # <<>> /\ \A i \in DOMAIN t : t[i] \in Digits
       THEN Some(DecimalValue(t, 0))
       ELSE None

\* ------------------------------------------------------------------------
\* list(set(xs)) as CPython builds and iterates a small set of ints:
\* a table of 8 slots, hash(n) = n, first slot n & 7, on a collision the
\* probe i -> (5 * i + 1 + perturb) & 7 with perturb = hash >> 5 shifted
\* again at every probe; iteration is by slot.  The table is not resized
\* below five entries, which the declared lists of the model never reach.
\* ------------------------------------------------------------------------
SetSlots == 0..7
EmptyTable == [i \in SetSlots |-> None]

RECURSIVE Probe(_, _, _, _)
Probe(table, key, i, perturb) ==
    IF table[i] = None THEN [table EXCEPT ![i] = Some(key)]
    ELSE IF table[i] = Some(key) THEN table
    ELSE Probe(table, key, (5 * i + 1 + (perturb \div 32)) % Cardinality(SetSlots),
               perturb \div 32)
SetAdd(table, key) == Probe(table, key, key % Cardinality(SetSlots), key)

RECURSIVE SetOf(_, _)
SetOf(xs, table) ==
    IF xs = <<>> THEN table ELSE SetOf(Tail(xs), SetAdd(table, Head(xs)))

RECURSIVE SlotsFrom(_, _)
SlotsFrom(table, i) ==
    IF i \notin SetSlots THEN <<>> ELSE table[i] \o SlotsFrom(table, i + 1)
ListOfSet(xs) == SlotsFrom(SetOf(xs, EmptyTable), 0)

\* ------------------------------------------------------------------------
\* get_item_id, get_vlan_name_id_map: the two collection reads
\* ------------------------------------------------------------------------
\* resp is the response of the GET: [success, value], value the list of
\* {Name, Id} records of the collection
RECURSIVE FirstNamed(_, _)
FirstNamed(tlist, name) ==
    IF tlist = <<>> THEN 0
    ELSE IF Some(Head(tlist).Name) = name THEN Head(tlist).Id
    ELSE FirstNamed(Tail(tlist), name)
get_item_id(resp, name) ==
    IF resp.success /\ resp.value # <<>> THEN FirstNamed(resp.value, name) ELSE 0

RECURSIVE NameIdItems(_, _)
NameIdItems(tlist, d) ==
    IF tlist = <<>> THEN d
    ELSE NameIdItems(Tail(tlist), Put(d, Head(tlist).Name, Head(tlist).Id))
get_vlan_name_id_map(resp) ==
    IF resp.success /\ resp.value # <<>> THEN NameIdItems(resp.value, <<>>) ELSE <<>>

\* get_key: the first name of the catalog that has the id, else None
RECURSIVE get_key(_, _)
get_key(val, my_dict) ==
    IF my_dict = <<>> THEN None
    ELSE IF Head(my_dict)[2] = val THEN Some(Head(my_dict)[1])
    ELSE get_key(val, Tail(my_dict))

\* ------------------------------------------------------------------------
\* get_template_vlan_info: the walk over the attribute view
\* ------------------------------------------------------------------------
\* str.lower() on the display names the service uses
Lower ==
    ("Vlan Tagged" :> "vlan tagged") @@ ("Vlan Untagged" :> "vlan untagged") @@
    ("VLAN TAGGED" :> "vlan tagged") @@ ("Nic Bonding Enabled" :> "nic bonding enabled")

\* list(map(int, value.replace(" ", "").split(","))): None for a ValueError
ParseTagged(value) ==
    LET fields == SplitComma(RemoveSpaces(value))
        ints == [i \in DOMAIN fields |-> PyInt(fields[i])]
    IN IF \E i \in DOMAIN ints : ints[i] = None
       THEN None
       ELSE Some([i \in DOMAIN ints |-> ints[i][1]])

\* the state of the three maps; err is "" until an exception is raised
NoMaps == [err |-> "", port_id_map |-> <<>>, port_untagged_map |-> <<>>,
           port_tagged_map |-> <<>>]

\* the body of the innermost loop for one attribute of a port
VisitAttribute(m, port_number, attribute) ==
    IF m.err # "" \/ attribute.CustomId = 0 THEN m
    ELSE
      LET m1 == [m EXCEPT !.port_id_map = Put(@, port_number, attribute.CustomId)]
          m2 == IF Lower[attribute.DisplayName] = "vlan untagged"
                THEN IF PyInt(attribute.Value) = None
                     THEN [m1 EXCEPT !.err = "ValueError"]
                     ELSE [m1 EXCEPT !.port_untagged_map =
                              Put(@, port_number, PyInt(attribute.Value)[1])]
                ELSE m1
          m3 == IF m2.err = "" /\ Lower[attribute.DisplayName] = "vlan tagged"
                THEN IF attribute.Value = <<>>
                     THEN [m2 EXCEPT !.port_tagged_map = Put(@, port_number, <<>>)]
                     ELSE IF ParseTagged(attribute.Value) = None
                          THEN [m2 EXCEPT !.err = "ValueError"]
                          ELSE [m2 EXCEPT !.port_tagged_map =
                                   Put(@, port_number, ParseTagged(attribute.Value)[1])]
                ELSE m2
      IN m3

RECURSIVE VisitAttributes(_, _, _)
VisitAttributes(m, port_number, attrs) ==
    IF attrs = <<>> THEN m
    ELSE VisitAttributes(VisitAttribute(m, port_number, Head(attrs)),
                         port_number, Tail(attrs))

RECURSIVE VisitPartitions(_, _, _)
VisitPartitions(m, port_number, parts) ==
    IF parts = <<>> THEN m
    ELSE VisitPartitions(VisitAttributes(m, port_number, Head(parts).Attributes),
                         port_number, Tail(parts))

RECURSIVE VisitPorts(_, _)
VisitPorts(m, ports) ==
    IF ports = <<>> THEN m
    ELSE VisitPorts(VisitPartitions(m, Head(ports).GroupNameId,
                                    Head(ports).SubAttributeGroups),
                    Tail(ports))

RECURSIVE VisitNics(_, _, _)
VisitNics(m, nic_id, nic_group) ==
    IF nic_group = <<>> THEN m
    ELSE VisitNics(IF nic_id = Head(nic_group).DisplayName
                   THEN VisitPorts(m, Head(nic_group).SubAttributeGroups)
                   ELSE m,
                   nic_id, Tail(nic_group))

\* resp is the response of the GET of the attribute view: [success, json];
\* the result is the three maps, or err = "NicNotFound" (fail_json), or the
\* exception the walk raised
get_template_vlan_info(resp, nic_id) ==
    IF ~resp.success THEN NoMaps
    ELSE IF resp.json.AttributeGroups = <<>> THEN [NoMaps EXCEPT !.err = "IndexError"]
    ELSE
      LET nic_group == resp.json.AttributeGroups[1].SubAttributeGroups
          m == VisitNics(NoMaps, nic_id, nic_group)
          nic_found == \E i \in DOMAIN nic_group : nic_group[i].DisplayName = nic_id
      IN IF m.err # "" THEN m
         ELSE IF ~nic_found THEN [m EXCEPT !.err = "NicNotFound"]
         ELSE m

\* ------------------------------------------------------------------------
\* compare_nested_dict
\* ------------------------------------------------------------------------
\* the values of the two maps are ints or lists, never dicts, so the
\* recursive branch is not taken; lists compare as Python lists do, element
\* by element in order
compare_nested_dict(modify_setting_payload, existing_setting_payload) ==
    \A i \in DOMAIN modify_setting_payload :
        LET key == modify_setting_payload[i][1]
            val == modify_setting_payload[i][2]
        IN /\ Get(existing_setting_payload, key) # None
           /\ val = At(existing_setting_payload, key)

\* ------------------------------------------------------------------------
\* validate_vlans
\* ------------------------------------------------------------------------
\* the result of validate_vlans: err = "" and the two dicts, or the kind of
\* the fail_json that ended the run, with the port and the VLAN it names
Valid(untag_dict, tagged_dict) ==
    [err |-> "", port |-> None, vlan |-> None, vlan_name |-> None,
     untag_dict |-> untag_dict, tagged_dict |-> tagged_dict]
Invalid(kind, p, vlan, vlan_name) ==
    [err |-> kind, port |-> p, vlan |-> vlan, vlan_name |-> vlan_name,
     untag_dict |-> <<>>, tagged_dict |-> <<>>]

\* one pass of the loop over untag_list: d is untag_dict so far
UntagPass(d, utg, vlan_name_id_map) ==
    LET p == utg.port
        has_id == utg.untagged_network_id # None
        has_name == utg.untagged_network_name # None
                    /\ utg.untagged_network_name # Some("")
        vid == utg.untagged_network_id[1]
        vname == utg.untagged_network_name[1]
        d1 == IF has_id THEN Put(d, p, vid) ELSE d
    IN IF has_id /\ Has(d, p)
       THEN Invalid("RepeatedPortUntaggedId", Some(p), None, None)
       ELSE IF has_id /\ vid \notin Values(vlan_name_id_map)
       THEN Invalid("InvalidUntaggedId", Some(p), Some(vid), None)
       ELSE IF has_name /\ has_id
       THEN Invalid("MutuallyExclusive", Some(p), None, None)
       ELSE IF has_name /\ ~Has(vlan_name_id_map, vname)
       THEN Invalid("InvalidUntaggedName", Some(p), None, Some(vname))
       ELSE IF has_name /\ Has(d1, p)
       THEN Invalid("RepeatedPortUntaggedName", Some(p), None, None)
       ELSE IF has_name
       THEN Valid(Put(d1, p, At(vlan_name_id_map, vname)), <<>>)
       ELSE Valid(d1, <<>>)

RECURSIVE UntagLoop(_, _, _)
UntagLoop(d, untag_list, vlan_name_id_map) ==
    IF untag_list = <<>> THEN Valid(d, <<>>)
    ELSE LET r == UntagPass(d, Head(untag_list), vlan_name_id_map)
         IN IF r.err # "" THEN r
            ELSE UntagLoop(r.untag_dict, Tail(untag_list), vlan_name_id_map)

\* the first element of the list, in order, that is not among the good ones
RECURSIVE FirstBad(_, _)
FirstBad(xs, good) ==
    IF xs = <<>> THEN None
    ELSE IF Head(xs) \notin good THEN Some(Head(xs))
    ELSE FirstBad(Tail(xs), good)

\* one pass of the loop over tagged_list: d is tagged_dict so far
TaggedPass(d, tg, vlan_name_id_map) ==
    LET p == tg.port
        tgnids == tg.tagged_network_ids
        tgnames == tg.tagged_network_names
        ids == IF tgnids # None THEN tgnids[1] ELSE <<>>
        names == IF tgnames # None THEN tgnames[1] ELSE <<>>
        empty_list == (tgnids # None /\ Len(ids) = 0)
                      \/ (tgnames # None /\ Len(names) = 0)
        bad_id == FirstBad(ids, Values(vlan_name_id_map))
        bad_name == FirstBad(names, Keys(vlan_name_id_map))
        tg_list == ids \o [i \in DOMAIN names |-> At(vlan_name_id_map, names[i])]
    IN IF bad_id # None
       THEN Invalid("InvalidTaggedId", Some(p), bad_id, None)
       ELSE IF bad_name # None
       THEN Invalid("InvalidTaggedName", Some(p), None, bad_name)
       ELSE IF tg_list = <<>> /\ ~empty_list
       THEN Invalid("NoTaggedNetworks", Some(p), None, None)
       ELSE Valid(<<>>, Put(d, p, ListOfSet(tg_list)))

RECURSIVE TaggedLoop(_, _, _)
TaggedLoop(d, tagged_list, vlan_name_id_map) ==
    IF tagged_list = <<>> THEN Valid(<<>>, d)
    ELSE LET r == TaggedPass(d, Head(tagged_list), vlan_name_id_map)
         IN IF r.err # "" THEN r
            ELSE TaggedLoop(r.tagged_dict, Tail(tagged_list), vlan_name_id_map)

\* the final loop: the first port of untag_dict whose VLAN is in its tagged list
RECURSIVE CrossCheck(_, _, _, _)
CrossCheck(rest, untag_dict, tagged_dict, vlan_name_id_map) ==
    IF rest = <<>> THEN Valid(untag_dict, tagged_dict)
    ELSE LET k == Head(rest)[1]
             v == Head(rest)[2]
             tagged == IF Has(tagged_dict, k) THEN At(tagged_dict, k) ELSE <<>>
         IN IF \E i \in DOMAIN tagged : tagged[i] = v
            THEN Invalid("TaggedAndUntagged", Some(k), Some(v),
                         get_key(v, vlan_name_id_map))
            ELSE CrossCheck(Tail(rest), untag_dict, tagged_dict, vlan_name_id_map)

\* resp is the response of the GET of the VLAN networks
validate_vlans(params, resp) ==
    LET catalog == get_vlan_name_id_map(resp)
        with_zero == Put(catalog, "0", 0)
        without_zero == Pop(with_zero, "0")
        tagged_list == params.tagged_networks
        untag_list == params.untagged_networks
        u == UntagLoop(<<>>, untag_list, with_zero)
        t == TaggedLoop(<<>>, tagged_list, without_zero)
    IN IF tagged_list = <<>> /\ untag_list = <<>>
       THEN Invalid("NoNetworks", None, None, None)
       ELSE IF u.err # "" THEN u
       ELSE IF t.err # "" THEN t
       ELSE CrossCheck(u.untag_dict, u.untag_dict, t.tagged_dict, without_zero)

\* ------------------------------------------------------------------------
\* get_vlan_payload
\* ------------------------------------------------------------------------
\* template_id = module.params.get("template_id"), looked up by name when
\* it is None or 0; resp is the response of the GET of the templates
resolve_template_id(params, resp) ==
    IF params.template_id = None \/ params.template_id = Some(0)
    THEN get_item_id(resp, params.template_name)
    ELSE params.template_id[1]

\* dict.pop(pk, default) as a value that may be None
PopValue(d, pk, default) == IF Has(d, pk) THEN Some(At(d, pk)) ELSE default

\* the loop over port_id_map.items(): acc holds vlan_attributes and what
\* the pops have left of the two dicts
RECURSIVE AttributesLoop(_, _, _)
AttributesLoop(items, maps, acc) ==
    IF items = <<>> THEN acc
    ELSE
      LET pk == Head(items)[1]
          touched == Has(acc.untag_dict, pk) \/ Has(acc.tagged_dict, pk)
          mdict == [Untagged |-> PopValue(acc.untag_dict, pk,
                                          Get(maps.port_untagged_map, pk)),
                    Tagged |-> PopValue(acc.tagged_dict, pk,
                                        Get(maps.port_tagged_map, pk)),
                    ComponentId |-> At(maps.port_id_map, pk)]
      IN AttributesLoop(Tail(items), maps,
            IF touched
            THEN [vlan_attributes |-> Append(acc.vlan_attributes, mdict),
                  untag_dict |-> Pop(acc.untag_dict, pk),
                  tagged_dict |-> Pop(acc.tagged_dict, pk)]
            ELSE acc)

\* the tagged check left out: ports declared only as tagged pass
build_payload_tagged_unchecked(template_id, maps, untag_dict, tagged_dict) ==
    LET acc == AttributesLoop(maps.port_id_map, maps,
                   [vlan_attributes |-> <<>>, untag_dict |-> untag_dict,
                    tagged_dict |-> tagged_dict])
    IN IF acc.untag_dict # <<>>
       THEN [err |-> "InvalidPortUntagged", ports |-> KeyList(acc.untag_dict),
             payload |-> None, untag_dict |-> acc.untag_dict,
             tagged_dict |-> acc.tagged_dict]
       ELSE [err |-> "", ports |-> <<>>,
             payload |-> Some([TemplateId |-> template_id,
                               VlanAttributes |-> acc.vlan_attributes]),
             untag_dict |-> acc.untag_dict, tagged_dict |-> acc.tagged_dict]

\* every topology port gets an entry, declared or not
build_payload_all_ports(template_id, maps, untag_dict, tagged_dict) ==
    LET ids == maps.port_id_map
        attrs == [i \in DOMAIN ids |->
                    [Untagged |-> PopValue(untag_dict, ids[i][1],
                                           Get(maps.port_untagged_map, ids[i][1])),
                     Tagged |-> PopValue(tagged_dict, ids[i][1],
                                         Get(maps.port_tagged_map, ids[i][1])),
                     ComponentId |-> ids[i][2]]]
        left_u == SelectSeq(untag_dict, LAMBDA it : ~Has(ids, it[1]))
        left_t == SelectSeq(tagged_dict, LAMBDA it : ~Has(ids, it[1]))
    IN IF left_u # <<>>
       THEN [err |-> "InvalidPortUntagged", ports |-> KeyList(left_u),
             payload |-> None, untag_dict |-> left_u, tagged_dict |-> left_t]
       ELSE IF left_t # <<>>
       THEN [err |-> "InvalidPortTagged", ports |-> KeyList(left_t),
             payload |-> None, untag_dict |-> left_u, tagged_dict |-> left_t]
       ELSE [err |-> "", ports |-> <<>>,
             payload |-> Some([TemplateId |-> template_id, VlanAttributes |-> attrs]),
             untag_dict |-> left_u, tagged_dict |-> left_t]

\* the declared tagged list merged into the current one instead of replacing it
build_payload_merge(template_id, maps, untag_dict, tagged_dict) ==
    LET ids == maps.port_id_map
        merged == [i \in DOMAIN tagged_dict |->
                     <<tagged_dict[i][1],
                       IF Has(maps.port_tagged_map, tagged_dict[i][1])
                       THEN ListOfSet(At(maps.port_tagged_map, tagged_dict[i][1])
                                      \o tagged_dict[i][2])
                       ELSE tagged_dict[i][2]>>]
        acc == AttributesLoop(ids, maps,
                   [vlan_attributes |-> <<>>, untag_dict |-> untag_dict,
                    tagged_dict |-> merged])
    IN IF acc.untag_dict # <<>>
       THEN [err |-> "InvalidPortUntagged", ports |-> KeyList(acc.untag_dict),
             payload |-> None, untag_dict |-> acc.untag_dict,
             tagged_dict |-> acc.tagged_dict]
       ELSE IF acc.tagged_dict # <<>>
       THEN [err |-> "InvalidPortTagged", ports |-> KeyList(acc.tagged_dict),
             payload |-> None, untag_dict |-> acc.untag_dict,
             tagged_dict |-> acc.tagged_dict]
       ELSE [err |-> "", ports |-> <<>>,
             payload |-> Some([TemplateId |-> template_id,
                               VlanAttributes |-> acc.vlan_attributes]),
             untag_dict |-> acc.untag_dict, tagged_dict |-> acc.tagged_dict]

\* the part of get_vlan_payload after the no-change exit: the payload, or
\* the fail_json for the ports left in untag_dict, else in tagged_dict
build_payload(template_id, maps, untag_dict, tagged_dict) ==
    LET acc == AttributesLoop(maps.port_id_map, maps,
                   [vlan_attributes |-> <<>>, untag_dict |-> untag_dict,
                    tagged_dict |-> tagged_dict])
    IN IF acc.untag_dict # <<>>
       THEN [err |-> "InvalidPortUntagged", ports |-> KeyList(acc.untag_dict),
             payload |-> None, untag_dict |-> acc.untag_dict,
             tagged_dict |-> acc.tagged_dict]
       ELSE IF acc.tagged_dict # <<>>
       THEN [err |-> "InvalidPortTagged", ports |-> KeyList(acc.tagged_dict),
             payload |-> None, untag_dict |-> acc.untag_dict,
             tagged_dict |-> acc.tagged_dict]
       ELSE [err |-> "", ports |-> <<>>,
             payload |-> Some([TemplateId |-> template_id,
                               VlanAttributes |-> acc.vlan_attributes]),
             untag_dict |-> acc.untag_dict, tagged_dict |-> acc.tagged_dict]

\* a truthiness test in place of "is None": 0 and [] count as missing
no_change_falsy(untag_dict, tagged_dict, maps) ==
    /\ \A i \in DOMAIN untag_dict :
          /\ Get(maps.port_untagged_map, untag_dict[i][1]) \notin {None, Some(0)}
          /\ untag_dict[i][2] = At(maps.port_untagged_map, untag_dict[i][1])
    /\ \A i \in DOMAIN tagged_dict :
          /\ Get(maps.port_tagged_map, tagged_dict[i][1]) \notin {None, Some(<<>>)}
          /\ tagged_dict[i][2] = At(maps.port_tagged_map, tagged_dict[i][1])

\* untag_equal_dict and tag_equal_dict
no_change(untag_dict, tagged_dict, maps) ==
    /\ compare_nested_dict(untag_dict, maps.port_untagged_map)
    /\ compare_nested_dict(tagged_dict, maps.port_tagged_map)

\* ------------------------------------------------------------------------
\* The management service
\* ------------------------------------------------------------------------
\* str(n) and ", ".join(...) as the service renders the values it stores
RECURSIVE IntChars(_)
IntChars(n) ==
    IF n < 10 THEN <<DigitChar[n + 1]>>
    ELSE Append(IntChars(n \div 10), DigitChar[(n % 10) + 1])
RECURSIVE JoinTagged(_)
JoinTagged(xs) ==
    IF xs = <<>> THEN <<>>
    ELSE IF Len(xs) = 1 THEN IntChars(xs[1])
    ELSE IntChars(Head(xs)) \o <<",", " ">> \o JoinTagged(Tail(xs))

Leaf(custom_id, display_name, value) ==
    [CustomId |-> custom_id, DisplayName |-> display_name, Value |-> value]
Partition(attributes) == [Attributes |-> attributes]
Port(group_name_id, partitions) ==
    [GroupNameId |-> group_name_id, SubAttributeGroups |-> partitions]
Nic(display_name, ports) == [DisplayName |-> display_name, SubAttributeGroups |-> ports]
View(nics) == [AttributeGroups |-> <<[SubAttributeGroups |-> nics]>>]

\* the port a ComponentId belongs to has an attribute with that CustomId
OwnsComponent(port, cid) ==
    \E i \in DOMAIN port.SubAttributeGroups :
        \E j \in DOMAIN port.SubAttributeGroups[i].Attributes :
            port.SubAttributeGroups[i].Attributes[j].CustomId = cid

HasLeaf(port, kind) ==
    \E i \in DOMAIN port.SubAttributeGroups :
        \E j \in DOMAIN port.SubAttributeGroups[i].Attributes :
            LET a == port.SubAttributeGroups[i].Attributes[j]
            IN a.CustomId # 0 /\ Lower[a.DisplayName] = kind

\* the port with every configurable leaf of the kind set to the value, the
\* leaf added to the last partition when the port has none
SetLeaf(port, kind, display_name, cid, value) ==
    IF HasLeaf(port, kind)
    THEN [port EXCEPT !.SubAttributeGroups =
            [i \in DOMAIN @ |->
               [Attributes |->
                  [j \in DOMAIN @[i].Attributes |->
                     LET a == port.SubAttributeGroups[i].Attributes[j]
                     IN IF a.CustomId # 0 /\ Lower[a.DisplayName] = kind
                        THEN [a EXCEPT !.Value = value]
                        ELSE a]]]]
    ELSE [port EXCEPT !.SubAttributeGroups[Len(port.SubAttributeGroups)].Attributes =
            Append(@, Leaf(cid, display_name, value))]

StoreEntry(port, mdict) ==
    LET p1 == IF mdict.Untagged # None
              THEN SetLeaf(port, "vlan untagged", "Vlan Untagged", mdict.ComponentId,
                           IntChars(mdict.Untagged[1]))
              ELSE port
    IN IF mdict.Tagged # None
       THEN SetLeaf(p1, "vlan tagged", "Vlan Tagged", mdict.ComponentId,
                    JoinTagged(mdict.Tagged[1]))
       ELSE p1

RECURSIVE StoreEntries(_, _)
StoreEntries(port, attrs) ==
    IF attrs = <<>> THEN port
    ELSE StoreEntries(IF OwnsComponent(port, Head(attrs).ComponentId)
                      THEN StoreEntry(port, Head(attrs))
                      ELSE port,
                      Tail(attrs))

\* UpdateNetworkConfig as the service is taken to perform it: each entry's
\* Untagged and Tagged become the values of the port of its ComponentId
ServiceStore(doc, payload) ==
    [AttributeGroups |->
       [g \in DOMAIN doc.AttributeGroups |->
          [SubAttributeGroups |->
             [n \in DOMAIN doc.AttributeGroups[g].SubAttributeGroups |->
                LET nic == doc.AttributeGroups[g].SubAttributeGroups[n]
                IN [nic EXCEPT !.SubAttributeGroups =
                      [q \in DOMAIN @ |->
                         StoreEntries(nic.SubAttributeGroups[q],
                                      payload.VlanAttributes)]]]]]]

\* ------------------------------------------------------------------------
\* The inputs of the model
\* ------------------------------------------------------------------------
\* NetworkConfigurationService/Networks: two of the ids share their three
\* low bits, as ids handed out in sequence by the service do
Networks ==
    <<[Name |-> "vlan1", Id |-> 50], [Name |-> "vlan2", Id |-> 100],
      [Name |-> "vlan3", Id |-> 108]>>
\* TemplateService/Templates
Templates == <<[Name |-> "other", Id |-> 12], [Name |-> "t1", Id |-> 78]>>

Tagged(cid, xs) == Leaf(cid, "Vlan Tagged", JoinTagged(xs))
Untagged(cid, n) == Leaf(cid, "Vlan Untagged", IntChars(n))

\* the second NIC of the template, never the one addressed
OtherNic == Nic("NIC2", <<Port(1, <<Partition(<<Tagged(31, <<50>>), Untagged(31, 108)>>)>>)>>)
\* port 2 of the addressed NIC
SecondPort == Port(2, <<Partition(<<Tagged(21, <<>>), Untagged(21, 100)>>)>>)

\* port 1 of the addressed NIC, as the service may present it
FirstPorts ==
    { \* both kinds configurable
      Port(1, <<Partition(<<Tagged(11, <<100, 108>>), Untagged(11, 50)>>)>>),
      Port(1, <<Partition(<<Untagged(11, 0), Tagged(11, <<108, 100>>)>>)>>),
      Port(1, <<Partition(<<Leaf(11, "VLAN TAGGED", <<"1", "0", "0">>),
                            Untagged(11, 0)>>)>>),
      \* two partitions, each with its own CustomId
      Port(1, <<Partition(<<Tagged(11, <<100>>), Untagged(11, 50)>>),
                Partition(<<Tagged(12, <<>>), Untagged(12, 0)>>)>>),
      \* only the tagged leaf is configurable
      Port(1, <<Partition(<<Tagged(11, <<100>>), Untagged(0, 50)>>)>>),
      \* only the untagged leaf is configurable
      Port(1, <<Partition(<<Tagged(0, <<100>>), Untagged(11, 50)>>)>>),
      \* a configurable leaf of neither kind
      Port(1, <<Partition(<<Leaf(11, "Nic Bonding Enabled", <<"0">>),
                            Tagged(0, <<>>), Untagged(0, 0)>>)>>),
      \* a value that is no list of integers
      Port(1, <<Partition(<<Leaf(11, "Vlan Tagged", <<"1", "0", "0", ",">>),
                            Untagged(11, 50)>>)>>) }

\* the attribute views of template 78: port 1 with or without port 2
Views ==
    {View(<<OtherNic, Nic("NIC1", <<p1, SecondPort>>)>>) : p1 \in FirstPorts}
    \cup {View(<<OtherNic, Nic("NIC1", <<p1>>)>>) :
            p1 \in {Port(1, <<Partition(<<Tagged(11, <<100, 108>>), Untagged(11, 50)>>)>>)}}

Ports == 1..MaxPort

\* the template and the NIC the invocation addresses
Targets ==
    { [template_id |-> Some(78), template_name |-> None, nic_identifier |-> "NIC1"],
      [template_id |-> None, template_name |-> Some("t1"), nic_identifier |-> "NIC1"],
      [template_id |-> None, template_name |-> Some("nosuch"), nic_identifier |-> "NIC1"],
      [template_id |-> Some(78), template_name |-> None, nic_identifier |-> "NIC9"] }

UntaggedEntry(p, id, name) ==
    [port |-> p, untagged_network_id |-> id, untagged_network_name |-> name]
UntaggedEntries ==
    {UntaggedEntry(p, c[1], c[2]) : p \in Ports,
        c \in { <<Some(0), None>>, <<Some(100), None>>, <<Some(7), None>>,
                <<None, Some("0")>>, <<None, Some("vlan2")>>, <<None, Some("bad")>>,
                <<Some(100), Some("vlan2")>>, <<None, None>> }}
\* untagged_networks: no entry, one entry, or two entries for ports 1 and 2
UntaggedLists ==
    {<<>>} \cup {<<e>> : e \in UntaggedEntries}
    \cup {<<UntaggedEntry(1, c[1], c[2]), UntaggedEntry(p, Some(50), None)>> :
            p \in {1, 2}, c \in {<<Some(100), None>>, <<None, Some("vlan2")>>}}

TaggedEntry(p, ids, names) ==
    [port |-> p, tagged_network_ids |-> ids, tagged_network_names |-> names]
TaggedEntries ==
    {TaggedEntry(p, c[1], c[2]) : p \in Ports,
        c \in { <<None, None>>, <<Some(<<>>), None>>, <<None, Some(<<>>)>>,
                <<Some(<<100>>), None>>, <<None, Some(<<"vlan2">>)>>,
                <<Some(<<100, 108>>), None>>, <<Some(<<108>>), Some(<<"vlan2">>)>>,
                <<Some(<<100, 100>>), Some(<<"vlan3">>)>>,
                <<Some(<<0>>), None>>, <<None, Some(<<"bad">>)>> }}
\* tagged_networks: no entry, one entry, or port 1 declared twice
TaggedLists ==
    {<<>>} \cup {<<e>> : e \in TaggedEntries}
    \cup {<<TaggedEntry(1, Some(<<100>>), None), TaggedEntry(p, Some(<<108>>), None)>> :
            p \in {1, 2}}

Declarations ==
    {[template_id |-> t.template_id, template_name |-> t.template_name,
      nic_identifier |-> t.nic_identifier,
      untagged_networks |-> u, tagged_networks |-> g] :
        t \in Targets, u \in UntaggedLists, g \in TaggedLists}

\* ------------------------------------------------------------------------
\* State
\* ------------------------------------------------------------------------
VARIABLES
    view,         \* the service's attribute view of template 78
    params,       \* module.params of the invocation
    history,      \* how the earlier invocations with this declaration ended
    pc,           \* where the invocation is
    untag_dict,   \* untag_dict and tagged_dict of main and get_vlan_payload
    tagged_dict,
    template_id,  \* None until get_vlan_payload has it
    maps,         \* what get_template_vlan_info returned
    payload,      \* None until get_vlan_payload has returned it
    requests,     \* the requests the invocation has issued, in order
    result        \* how the invocation ended: exit_json or fail_json

vars == <<view, params, history, pc, untag_dict, tagged_dict, template_id, maps,
          payload, requests, result>>

NoResult == [status |-> "", err |-> "", ports |-> <<>>]
Failed(err, ports) == [status |-> "Failed", err |-> err, ports |-> ports]
\* a request: the method, the resource, and for the attribute view the
\* template and the view asked for
Request(method, uri, id) ==
    [method |-> method, uri |-> uri, id |-> id,
     view_id |-> IF uri = "TEMPLATE_ATTRIBUTE_VIEW"
                 THEN Some(NETWORK_HIERARCHY_VIEW) ELSE None]

Fresh ==
    /\ pc = "start"
    /\ untag_dict = <<>>
    /\ tagged_dict = <<>>
    /\ template_id = None
    /\ maps = NoMaps
    /\ payload = None
    /\ requests = <<>>
    /\ result = NoResult

Init ==
    /\ view \in Views
    /\ params \in Declarations
    /\ history = <<>>
    /\ Fresh

\* the service's answers
NetworksResp == [success |-> TRUE, value |-> Networks]
TemplatesResp == [success |-> TRUE, value |-> Templates]
TemplateExists(id) == \E i \in DOMAIN Templates : Templates[i].Id = id

\* ------------------------------------------------------------------------
\* Steps of main
\* ------------------------------------------------------------------------
\* untag_dict, tagged_dict = validate_vlans(module, rest_obj)
ValidateVlans ==
    /\ pc = "start"
    /\ LET r == validate_vlans(params, NetworksResp)
       IN /\ requests' = Append(requests, Request("GET", "VLAN_NETWORKS", None))
          /\ untag_dict' = r.untag_dict
          /\ tagged_dict' = r.tagged_dict
          /\ pc' = IF r.err = "" THEN "validated" ELSE "done"
          /\ result' = IF r.err = "" THEN result ELSE Failed(r.err, r.port)
    /\ UNCHANGED <<view, params, history, template_id, maps, payload>>

\* get_vlan_payload, up to the template id
LocateTemplate ==
    /\ pc = "validated"
    /\ template_id' = Some(resolve_template_id(params, TemplatesResp))
    /\ requests' = IF params.template_id = None \/ params.template_id = Some(0)
                   THEN Append(requests, Request("GET", "TEMPLATE_VIEW", None))
                   ELSE requests
    /\ pc' = "located"
    /\ UNCHANGED <<view, params, history, untag_dict, tagged_dict, maps, payload, result>>

\* get_template_vlan_info: the service answers a template it does not have
\* with an HTTP error, which main reports
ReadTopology ==
    /\ pc = "located"
    /\ requests' = Append(requests, Request("GET", "TEMPLATE_ATTRIBUTE_VIEW", template_id))
    /\ LET m == get_template_vlan_info([success |-> TRUE, json |-> view],
                                       params.nic_identifier)
       IN IF ~TemplateExists(template_id[1])
          THEN /\ pc' = "done"
               /\ result' = Failed("HTTPError", <<>>)
               /\ maps' = maps
          ELSE IF m.err # ""
          THEN /\ pc' = "done"
               /\ result' = Failed(m.err, <<>>)
               /\ maps' = maps
          ELSE /\ pc' = "read"
               /\ result' = result
               /\ maps' = m
    /\ UNCHANGED <<view, params, history, untag_dict, tagged_dict, template_id, payload>>

\* the comparison of the declared with the current maps and the exit_json
CompareSettings ==
    /\ pc = "read"
    /\ IF no_change(untag_dict, tagged_dict, maps)
       THEN /\ pc' = "done"
            /\ result' = [status |-> "NoChange", err |-> "", ports |-> <<>>]
       ELSE /\ pc' = "compared"
            /\ result' = result
    /\ UNCHANGED <<view, params, history, untag_dict, tagged_dict, template_id, maps,
                   payload, requests>>

\* the rest of get_vlan_payload
BuildPayload ==
    /\ pc = "compared"
    /\ LET b == build_payload(template_id[1], maps, untag_dict, tagged_dict)
       IN /\ untag_dict' = b.untag_dict
          /\ tagged_dict' = b.tagged_dict
          /\ payload' = b.payload
          /\ pc' = IF b.err = "" THEN "built" ELSE "done"
          /\ result' = IF b.err = "" THEN result ELSE Failed(b.err, b.ports)
    /\ UNCHANGED <<view, params, history, template_id, maps, requests>>

\* the POST of the payload: the service applies it, or answers with an
\* HTTP error
SubmitUpdate ==
    /\ pc = "built"
    /\ requests' = Append(requests, Request("POST", "UPDATE_NETWORK_CONFIG", template_id))
    /\ \E success \in BOOLEAN :
          IF success
          THEN /\ view' = ServiceStore(view, payload[1])
               /\ result' = [status |-> "Applied", err |-> "", ports |-> <<>>]
          ELSE /\ view' = view
               /\ result' = Failed("HTTPError", <<>>)
    /\ pc' = "done"
    /\ UNCHANGED <<params, history, untag_dict, tagged_dict, template_id, maps, payload>>

\* the module invoked again with the same declaration after a run that
\* ended in success
Rerun ==
    /\ pc = "done"
    /\ result.status \in {"Applied", "NoChange"}
    /\ Len(history) + 1 < MaxRuns
    /\ history' = Append(history, result.status)
    /\ pc' = "start"
    /\ untag_dict' = <<>>
    /\ tagged_dict' = <<>>
    /\ template_id' = None
    /\ maps' = NoMaps
    /\ payload' = None
    /\ requests' = <<>>
    /\ result' = NoResult
    /\ UNCHANGED <<view, params>>

Next ==
    \/ ValidateVlans
    \/ LocateTemplate
    \/ ReadTopology
    \/ CompareSettings
    \/ BuildPayload
    \/ SubmitUpdate
    \/ Rerun

Spec == Init /\ [][Next]_vars

\* ------------------------------------------------------------------------
\* Definitions the properties are stated with
\* ------------------------------------------------------------------------
ToSet(xs) == {xs[i] : i \in DOMAIN xs}
Posts == {i \in DOMAIN requests : requests[i].method = "POST"}
TopologyReads == {i \in DOMAIN requests : requests[i].uri = "TEMPLATE_ATTRIBUTE_VIEW"}
\* the id the catalog gives a name, 0 for the name "0" of an untagged entry
IdOfName(name) ==
    IF \E i \in DOMAIN Networks : Networks[i].Name = name
    THEN Networks[CHOOSE i \in DOMAIN Networks : Networks[i].Name = name].Id
    ELSE 0
NameOfId(id) == Networks[CHOOSE i \in DOMAIN Networks : Networks[i].Id = id].Name
CatalogIds == {Networks[i].Id : i \in DOMAIN Networks}
CatalogNames == {Networks[i].Name : i \in DOMAIN Networks}

\* what the declaration says of a port, read off module.params: the
\* ports declared, the untagged id and the set of tagged ids
DeclaredUntaggedPorts ==
    {params.untagged_networks[i].port : i \in
        {j \in DOMAIN params.untagged_networks :
            \/ params.untagged_networks[j].untagged_network_id # None
            \/ params.untagged_networks[j].untagged_network_name # None}}
DeclaredTaggedPorts ==
    {params.tagged_networks[i].port : i \in DOMAIN params.tagged_networks}
DeclaredPorts == DeclaredUntaggedPorts \cup DeclaredTaggedPorts
DeclaredUntagged(p) ==
    LET i == CHOOSE j \in DOMAIN params.untagged_networks :
                 /\ params.untagged_networks[j].port = p
                 /\ \/ params.untagged_networks[j].untagged_network_id # None
                    \/ params.untagged_networks[j].untagged_network_name # None
        e == params.untagged_networks[i]
    IN IF e.untagged_network_id # None THEN e.untagged_network_id[1]
       ELSE IdOfName(e.untagged_network_name[1])
\* the last entry of the port is the one that counts
DeclaredTagged(p) ==
    LET i == CHOOSE j \in DOMAIN params.tagged_networks :
                 /\ params.tagged_networks[j].port = p
                 /\ \A k \in DOMAIN params.tagged_networks :
                       params.tagged_networks[k].port = p => k <= j
        e == params.tagged_networks[i]
        ids == IF e.tagged_network_ids # None THEN e.tagged_network_ids[1] ELSE <<>>
        names == IF e.tagged_network_names # None THEN e.tagged_network_names[1] ELSE <<>>
    IN ToSet(ids) \cup {IdOfName(names[k]) : k \in DOMAIN names}

TopologyPorts == Keys(maps.port_id_map)
\* the port an entry of the plan is for
PortOf(mdict) ==
    CHOOSE p \in TopologyPorts : At(maps.port_id_map, p) = mdict.ComponentId
PlanEntries == IF payload = None THEN <<>> ELSE payload[1].VlanAttributes

ValidationErrors ==
    {"NoNetworks", "RepeatedPortUntaggedId", "RepeatedPortUntaggedName",
     "MutuallyExclusive", "NoTaggedNetworks"}
ResolutionErrors ==
    {"InvalidUntaggedId", "InvalidUntaggedName", "InvalidTaggedId",
     "InvalidTaggedName", "NicNotFound"}
ConflictErrors == {"TaggedAndUntagged"}
InvalidPortErrors == {"InvalidPortUntagged", "InvalidPortTagged"}

\* ------------------------------------------------------------------------
\* Properties
\* ------------------------------------------------------------------------
\* C1: a run that repeats a declaration whose first run submitted a plan,
\* the service having stored the plan as submitted, ends in "No changes
\* found to be applied" and issues no write.
C1_SecondRunNoChange ==
    (history # <<>> /\ pc = "done") => (result.status = "NoChange" /\ Posts = {})
C1_Witness ==
    /\ history = <<"Applied">>
    /\ pc = "done"
    /\ result.status = "NoChange"
    /\ DeclaredUntaggedPorts # {}
    /\ DeclaredTaggedPorts # {}

\* C2: at most one POST per invocation, issued only after validation has
\* passed, the topology has been read, the no-change test was negative and
\* every declared port was found in the topology; a run that ends in a
\* validation, resolution, conflict or invalid-port failure has issued none.
C2_WriteSafety ==
    /\ Cardinality(Posts) <= 1
    /\ \A i \in Posts :
          /\ validate_vlans(params, NetworksResp).err = ""
          /\ \E j \in TopologyReads : j < i
          /\ maps.port_id_map # <<>>
          /\ ~no_change(validate_vlans(params, NetworksResp).untag_dict,
                        validate_vlans(params, NetworksResp).tagged_dict, maps)
          /\ DeclaredPorts \subseteq TopologyPorts
    /\ (/\ result.status = "Failed"
        /\ result.err \in ValidationErrors \cup ResolutionErrors
                          \cup ConflictErrors \cup InvalidPortErrors)
       => Posts = {}
C2_Witness ==
    /\ pc = "done"
    /\ result.status = "Applied"
    /\ Cardinality(Posts) = 1
    /\ Cardinality(DeclaredPorts) = 2

\* C3: a topology port that is in neither desired map has no entry in the
\* plan, and the values read for it after the plan is applied are the
\* values read before.
C3_Frame ==
    \A p \in TopologyPorts \ DeclaredPorts :
        /\ \A i \in DOMAIN PlanEntries :
              PlanEntries[i].ComponentId # At(maps.port_id_map, p)
        /\ (pc = "done" /\ result.status = "Applied") =>
              LET after == get_template_vlan_info([success |-> TRUE, json |-> view],
                                                  params.nic_identifier)
              IN /\ Get(after.port_untagged_map, p) = Get(maps.port_untagged_map, p)
                 /\ Get(after.port_tagged_map, p) = Get(maps.port_tagged_map, p)
C3_Witness ==
    /\ pc = "done"
    /\ result.status = "Applied"
    /\ TopologyPorts \ DeclaredPorts # {}
    /\ PlanEntries # <<>>

\* C6: the plan entry of a declared port carries the declared untagged id
\* when one is declared, else the current one, and exactly the declared
\* tagged set when one is declared, else the current list; every declared
\* port has its entry; and a run ends in no change only if every declared
\* value is the current one.
C6_ReplaceAndClear ==
    /\ payload # None =>
          /\ \A i \in DOMAIN PlanEntries :
                LET e == PlanEntries[i]
                    p == PortOf(e)
                IN /\ p \in DeclaredPorts
                   /\ e.Untagged = IF p \in DeclaredUntaggedPorts
                                   THEN Some(DeclaredUntagged(p))
                                   ELSE Get(maps.port_untagged_map, p)
                   /\ IF p \in DeclaredTaggedPorts
                      THEN /\ e.Tagged # None
                           /\ ToSet(e.Tagged[1]) = DeclaredTagged(p)
                           /\ Cardinality(DeclaredTagged(p)) = Len(e.Tagged[1])
                      ELSE e.Tagged = Get(maps.port_tagged_map, p)
          /\ \A p \in DeclaredPorts :
                \E i \in DOMAIN PlanEntries : PortOf(PlanEntries[i]) = p
    /\ result.status = "NoChange" =>
          /\ \A p \in DeclaredUntaggedPorts :
                Get(maps.port_untagged_map, p) = Some(DeclaredUntagged(p))
          /\ \A p \in DeclaredTaggedPorts :
                /\ Has(maps.port_tagged_map, p)
                /\ ToSet(At(maps.port_tagged_map, p)) = DeclaredTagged(p)
\* untagged id 0 over a current 50 and an empty tagged list over a current
\* list of two
C6_Witness ==
    /\ pc = "built"
    /\ \E i \in DOMAIN PlanEntries :
          LET p == PortOf(PlanEntries[i])
          IN /\ p \in DeclaredUntaggedPorts /\ p \in DeclaredTaggedPorts
             /\ Get(maps.port_untagged_map, p) = Some(50)
             /\ Len(At(maps.port_tagged_map, p)) = 2
             /\ PlanEntries[i].Untagged = Some(0)
             /\ PlanEntries[i].Tagged = Some(<<>>)

\* C4: in no entry of a plan is the Untagged id a member of the entry's
\* Tagged list.
C4_Disjoint ==
    \A i \in DOMAIN PlanEntries :
        LET e == PlanEntries[i]
        IN (e.Untagged # None /\ e.Tagged # None) =>
              e.Untagged[1] \notin ToSet(e.Tagged[1])

\* C7: a template name that matches no template is fatal at the lookup:
\* no topology read is requested for template id 0.
C7_UnknownTemplateFatal ==
    template_id = Some(0) => TopologyReads = {}

\* C8: an invalid-port failure reports exactly the declared ports that the
\* topology does not have.
C8_AllInvalidPortsReported ==
    (result.status = "Failed" /\ result.err \in InvalidPortErrors) =>
        ToSet(result.ports) = DeclaredPorts \ TopologyPorts

\* C9: a run whose declared untagged ids are the current ones and whose
\* declared tagged sets are the current tagged lists taken as sets ends in
\* no change.
C9_NoChangeOrderInsensitive ==
    (/\ pc \in {"compared", "built", "done"}
     /\ maps.port_id_map # <<>>
     /\ \A p \in DeclaredUntaggedPorts :
           Get(maps.port_untagged_map, p) = Some(DeclaredUntagged(p))
     /\ \A p \in DeclaredTaggedPorts :
           /\ Has(maps.port_tagged_map, p)
           /\ ToSet(At(maps.port_tagged_map, p)) = DeclaredTagged(p))
    => (pc = "done" /\ result.status = "NoChange")

\* C10: every entry of a plan has an integer Untagged and a Tagged list.
C10_EntriesDefined ==
    \A i \in DOMAIN PlanEntries :
        PlanEntries[i].Untagged # None /\ PlanEntries[i].Tagged # None

\* ------------------------------------------------------------------------
\* Declarations that differ only in naming a VLAN or giving its id
\* ------------------------------------------------------------------------
\* the elements of xs at the positions in at, in order
RECURSIVE PickFrom(_, _, _)
PickFrom(xs, at, i) ==
    IF i > Len(xs) THEN <<>>
    ELSE (IF i \in at THEN <<xs[i]>> ELSE <<>>) \o PickFrom(xs, at, i + 1)
Pick(xs, at) == PickFrom(xs, at, 1)

UntaggedVariants(e) ==
    {e}
    \cup (IF /\ e.untagged_network_id # None
             /\ e.untagged_network_name = None
             /\ e.untagged_network_id[1] \in CatalogIds \cup {0}
          THEN {[e EXCEPT !.untagged_network_id = None,
                          !.untagged_network_name =
                              IF e.untagged_network_id[1] = 0 THEN Some("0")
                              ELSE Some(NameOfId(e.untagged_network_id[1]))]}
          ELSE {})
    \cup (IF /\ e.untagged_network_name # None
             /\ e.untagged_network_id = None
             /\ e.untagged_network_name[1] \in CatalogNames \cup {"0"}
          THEN {[e EXCEPT !.untagged_network_name = None,
                          !.untagged_network_id =
                              Some(IdOfName(e.untagged_network_name[1]))]}
          ELSE {})

\* some of the ids given by name instead, or some of the names by id
TaggedVariants(e) ==
    LET ids == IF e.tagged_network_ids # None THEN e.tagged_network_ids[1] ELSE <<>>
        names == IF e.tagged_network_names # None THEN e.tagged_network_names[1] ELSE <<>>
        known_ids == {i \in DOMAIN ids : ids[i] \in CatalogIds}
        known_names == {i \in DOMAIN names : names[i] \in CatalogNames}
    IN {e}
       \cup {[e EXCEPT !.tagged_network_ids = Some(Pick(ids, DOMAIN ids \ at)),
                       !.tagged_network_names =
                           Some([i \in DOMAIN Pick(ids, at) |-> NameOfId(Pick(ids, at)[i])]
                                \o names)] :
               at \in SUBSET known_ids \ {{}}}
       \cup {[e EXCEPT !.tagged_network_names = Some(Pick(names, DOMAIN names \ at)),
                       !.tagged_network_ids =
                           Some(ids \o [i \in DOMAIN Pick(names, at) |->
                                           IdOfName(Pick(names, at)[i])])] :
               at \in SUBSET known_names \ {{}}}

Variants(p) ==
    {[p EXCEPT !.untagged_networks = u, !.tagged_networks = g] :
        u \in {l \in [DOMAIN p.untagged_networks ->
                        UNION {UntaggedVariants(p.untagged_networks[i]) :
                                 i \in DOMAIN p.untagged_networks}] :
                 \A i \in DOMAIN l : l[i] \in UntaggedVariants(p.untagged_networks[i])},
        g \in {l \in [DOMAIN p.tagged_networks ->
                        UNION {TaggedVariants(p.tagged_networks[i]) :
                                 i \in DOMAIN p.tagged_networks}] :
                 \A i \in DOMAIN l : l[i] \in TaggedVariants(p.tagged_networks[i])}}

\* main up to the POST as one function of the declaration and the view
Invocation(p, doc) ==
    LET v == validate_vlans(p, NetworksResp)
        tid == resolve_template_id(p, TemplatesResp)
        m == get_template_vlan_info([success |-> TRUE, json |-> doc], p.nic_identifier)
        b == build_payload(tid, m, v.untag_dict, v.tagged_dict)
        out(status, err, plan) ==
            [status |-> status, err |-> err, payload |-> plan,
             untag_dict |-> v.untag_dict, tagged_dict |-> v.tagged_dict]
    IN IF v.err # "" THEN out("Failed", v.err, None)
       ELSE IF ~TemplateExists(tid) THEN out("Failed", "HTTPError", None)
       ELSE IF m.err # "" THEN out("Failed", m.err, None)
       ELSE IF no_change(v.untag_dict, v.tagged_dict, m) THEN out("NoChange", "", None)
       ELSE IF b.err # "" THEN out("Failed", b.err, None)
       ELSE out("Built", "", b.payload)

\* the desired state and the plan with the tagged lists taken as sets
Normalized(u, g) ==
    <<{<<u[i][1], u[i][2]>> : i \in DOMAIN u},
      {<<g[i][1], ToSet(g[i][2])>> : i \in DOMAIN g}>>
PlanAsSets(plan) ==
    IF plan = None THEN <<>>
    ELSE [i \in DOMAIN plan[1].VlanAttributes |->
            LET e == plan[1].VlanAttributes[i]
            IN <<e.ComponentId, e.Untagged,
                 IF e.Tagged = None THEN None ELSE Some(ToSet(e.Tagged[1]))>>]
ErrorClass(err) ==
    IF err \in ValidationErrors THEN "validation"
    ELSE IF err \in ResolutionErrors THEN "resolution"
    ELSE IF err \in InvalidPortErrors THEN "invalid port"
    ELSE err

\* C5: a declaration and any declaration that differs from it only in
\* giving some VLANs by name instead of by id, or by id instead of by name,
\* have the same normalized desired state, the same outcome and the same
\* plan.
C5_NameIdEquivalent ==
    \A alt \in Variants(params) :
        LET a == Invocation(alt, view)
        IN /\ pc = "validated" =>
                 Normalized(a.untag_dict, a.tagged_dict)
                     = Normalized(untag_dict, tagged_dict)
           /\ (pc = "done" /\ Posts = {}) =>
                 /\ a.status = result.status
                 /\ ErrorClass(a.err) = ErrorClass(result.err)
           /\ pc = "built" =>
                 /\ a.status = "Built"
                 /\ PlanAsSets(a.payload) = PlanAsSets(payload)

====
